---------------------------- MODULE Spec2Model ----------------------------
(***************************************************************************)
(* Model of the npm version-range library (package npm):                   *)
(* NewConstraints, Constraints.Check, Constraints.String and the operator  *)
(* predicates, with the two regular expressions built by init().           *)
(*                                                                         *)
(* A Go string is a sequence of one-character strings.  The semver.Version *)
(* value type and the part package belong to the imported goversion module;*)
(* the operators that stand for them are grouped in their own section.     *)
(***************************************************************************)
EXTENDS Integers, Sequences, FiniteSets, TLC

VARIABLES
    ops,      \* the operator alternation of both regexps, in init()'s map order
    pc,       \* "ready" | "parsed" | "failed" | "checked" | "printed" | "reparsed"
    input,    \* the range string given to NewConstraints
    cs,       \* the Constraints value NewConstraints returned
    err,      \* the error NewConstraints returned
    cand,     \* the Version last given to Check
    result,   \* what Check returned
    str,      \* what String() returned
    cs2,      \* NewConstraints(str): the re-parsed Constraints
    err2      \* NewConstraints(str): its error

vars == <<ops, pc, input, cs, err, cand, result, str, cs2, err2>>

----------------------------------------------------------------------------
(* Strings *)

Digits == <<"0", "1", "2", "3", "4", "5", "6", "7", "8", "9">>

Upper == <<"A", "B", "C", "D", "E", "F", "G", "H", "I", "J", "K", "L", "M",
           "N", "O", "P", "Q", "R", "S", "T", "U", "V", "W", "X", "Y", "Z">>

Lower == <<"a", "b", "c", "d", "e", "f", "g", "h", "i", "j", "k", "l", "m",
           "n", "o", "p", "q", "r", "s", "t", "u", "v", "w", "x", "y", "z">>

Range(f) == {f[i] : i \in DOMAIN f}

IsDigit(c) == c \in Range(Digits)

\* [0-9|x|X|\*] : inside a character class "|" is a literal
IsVerChar(c) == IsDigit(c) \/ c \in {"|", "x", "X", "*"}

\* [0-9A-Za-z-]
IsIdentChar(c) == IsDigit(c) \/ c \in Range(Upper) \/ c \in Range(Lower) \/ c = "-"

\* \s of Go's regexp: [\t\n\f\r ]
IsSpace(c) == c \in {" ", "\t", "\n", "\f", "\r"}

\* s[i..j-1]
Slice(s, i, j) == SubSeq(s, i, j - 1)

HasPrefixAt(s, i, p) ==
    /\ i + Len(p) - 1 <= Len(s)
    /\ \A k \in 1..Len(p) : s[i + k - 1] = p[k]

\* byte order of the characters that occur in part strings
ByteOrder == <<"*", "-">> \o Digits \o Upper \o Lower \o <<"|">>

Ord(c) == CHOOSE i \in 1..Len(ByteOrder) : ByteOrder[i] = c

\* strings.Compare
RECURSIVE StrCompare(_, _)
StrCompare(a, b) ==
    IF a = <<>> /\ b = <<>> THEN 0
    ELSE IF a = <<>> THEN -1
    ELSE IF b = <<>> THEN 1
    ELSE IF Ord(Head(a)) < Ord(Head(b)) THEN -1
    ELSE IF Ord(Head(a)) > Ord(Head(b)) THEN 1
    ELSE StrCompare(Tail(a), Tail(b))

\* strings.Join
RECURSIVE Join(_, _)
Join(ss, sep) ==
    IF ss = <<>> THEN <<>>
    ELSE IF Len(ss) = 1 THEN ss[1]
    ELSE ss[1] \o sep \o Join(Tail(ss), sep)

OrSep == <<"|", "|">>

\* strings.Split(v, "||"): cut at each leftmost "||"
RECURSIVE SplitFrom(_, _, _)
SplitFrom(s, start, i) ==
    IF i > Len(s) - 1 THEN <<Slice(s, start, Len(s) + 1)>>
    ELSE IF HasPrefixAt(s, i, OrSep)
         THEN <<Slice(s, start, i)>> \o SplitFrom(s, i + 2, i + 2)
         ELSE SplitFrom(s, start, i + 1)

Split(s) == SplitFrom(s, 1, 1)

\* strings.TrimSpace, over the white space the model's strings hold
RECURSIVE TrimLeft(_)
TrimLeft(s) == IF s # <<>> /\ IsSpace(Head(s)) THEN TrimLeft(Tail(s)) ELSE s

RECURSIVE TrimRight(_)
TrimRight(s) ==
    IF s # <<>> /\ IsSpace(s[Len(s)]) THEN TrimRight(Slice(s, 1, Len(s))) ELSE s

TrimSpace(s) == TrimRight(TrimLeft(s))

----------------------------------------------------------------------------
(* The grammar: cvRegex, and the two regexps init() compiles from it *)

\* the keys of constraintOperators
OpEmpty == <<>>
OpEq    == <<"=">>
OpEqEq  == <<"=", "=">>
OpGt    == <<">">>
OpLt    == <<"<">>
OpGte   == <<">", "=">>
OpEqGt  == <<"=", ">">>
OpLte   == <<"<", "=">>
OpEqLt  == <<"=", "<">>
OpTilde == <<"~">>
OpCaret == <<"^">>

OperatorKeys ==
    {OpEmpty, OpEq, OpEqEq, OpGt, OpLt, OpGte, OpEqGt, OpLte, OpEqLt, OpTilde, OpCaret}

\* constraintOperators: operator text -> operator function
constraintOperators ==
    [k \in OperatorKeys |->
        CASE k \in {OpEmpty, OpEq, OpEqEq} -> "constraintEqual"
          [] k = OpGt                      -> "constraintGreaterThan"
          [] k = OpLt                      -> "constraintLessThan"
          [] k \in {OpGte, OpEqGt}         -> "constraintGreaterThanEqual"
          [] k \in {OpLte, OpEqLt}         -> "constraintLessThanEqual"
          [] k = OpTilde                   -> "constraintTilde"
          [] k = OpCaret                   -> "constraintCaret"]

\* where the longest run of characters of a class, starting at i, ends
VerRunEnd(s, i) ==
    CHOOSE j \in i..(Len(s) + 1) :
        /\ \A k \in i..(j - 1) : IsVerChar(s[k])
        /\ (j = Len(s) + 1 \/ ~IsVerChar(s[j]))

IdentRunEnd(s, i) ==
    CHOOSE j \in i..(Len(s) + 1) :
        /\ \A k \in i..(j - 1) : IsIdentChar(s[k])
        /\ (j = Len(s) + 1 \/ ~IsIdentChar(s[j]))

SpaceRunEnd(s, i) ==
    CHOOSE j \in i..(Len(s) + 1) :
        /\ \A k \in i..(j - 1) : IsSpace(s[k])
        /\ (j = Len(s) + 1 \/ ~IsSpace(s[j]))

CharAt(s, i, c) == i <= Len(s) /\ s[i] = c

\* (?:[0-9A-Za-z-]+\.)*[0-9A-Za-z-]+ at i, greedy: the end of the match the
\* regexp prefers, or i when there is none
RECURSIVE IdentListEnd(_, _)
IdentListEnd(s, i) ==
    LET r == IdentRunEnd(s, i) IN
    IF r = i THEN i
    ELSE IF ~CharAt(s, r, ".") THEN r
    ELSE LET e == IdentListEnd(s, r + 1) IN
         IF e > r + 1 THEN e ELSE r

\* (?:\.([0-9|x|X|\*]+))? at i: the end of the group, or i when it is skipped
DotCompEnd(s, i) ==
    IF ~CharAt(s, i, ".") THEN i
    ELSE LET e == VerRunEnd(s, i + 1) IN
         IF e > i + 1 THEN e ELSE i

\* (?:-(...))? and (?:\+(...))? at i, c the sign
SuffixEnd(s, i, c) ==
    IF ~CharAt(s, i, c) THEN i
    ELSE LET e == IdentListEnd(s, i + 1) IN
         IF e > i + 1 THEN e ELSE i

\* where cvRegex, entered at st (past the optional v), stands after its k-th
\* piece: major (1), minor (2), patch (3), pre-release (4), build (5)
RECURSIVE CVStage(_, _, _)
CVStage(s, st, k) ==
    IF k = 0 THEN st
    ELSE IF k = 1 THEN VerRunEnd(s, st)
    ELSE IF k \in {2, 3} THEN DotCompEnd(s, CVStage(s, st, k - 1))
    ELSE IF k = 4 THEN SuffixEnd(s, CVStage(s, st, 3), "-")
    ELSE SuffixEnd(s, CVStage(s, st, 4), "+")

\* the text of a group that spans from + 1 .. to - 1, empty when unmatched
Group(s, from, to) == IF to > from THEN Slice(s, from + 1, to) ELSE <<>>

NoMatch(i) ==
    [ok |-> FALSE, start |-> i, end |-> i, op |-> <<>>, major |-> <<>>,
     minor |-> <<>>, patch |-> <<>>, pre |-> <<>>, build |-> <<>>]

\* the capture groups of cvRegex, e[k + 1] being the position after piece k
CVGroups(s, i, e) ==
    IF e[1] > Len(s) \/ e[2] = e[1] THEN NoMatch(i)
    ELSE [ok |-> TRUE, start |-> i, end |-> e[6], op |-> <<>>,
          major |-> Slice(s, e[1], e[2]),
          minor |-> Group(s, e[2], e[3]),
          patch |-> Group(s, e[3], e[4]),
          pre   |-> Group(s, e[4], e[5]),
          build |-> Group(s, e[5], e[6])]

\* cvRegex at i, leftmost-first: whether it matches, where the match ends and
\* its capture groups (an unmatched group is the empty string, as in Go)
MatchCV(s, i) ==
    CVGroups(s, i, [k \in 1..6 |->
                      CVStage(s, IF CharAt(s, i, "v") THEN i + 1 ELSE i, k - 1)])

\* whether alternative k of the operator alternation leads to a match of
\* (op)\s*(cvRegex) at i
OpMatchesAt(o, s, i, k) ==
    /\ HasPrefixAt(s, i, o[k])
    /\ MatchCV(s, SpaceRunEnd(s, i + Len(o[k]))).ok

\* the first of a set of alternatives (0: none)
FirstOf(M) == IF M = {} THEN 0 ELSE CHOOSE k \in M : \A h \in M : k <= h

\* MatchOp gone wrong: the first alternative that matches by itself, whether or
\* not the version matches after it
MatchOpFirstPrefix(o, s, i) == FirstOf({k \in 1..Len(o) : HasPrefixAt(s, i, o[k])})

\* the alternative the regexp takes at i: the first, in the alternation's
\* order, with which the whole expression matches
MatchOp(o, s, i) == FirstOf({k \in 1..Len(o) : OpMatchesAt(o, s, i, k)})

\* the match of (op)\s*(cvRegex) at i with the operator text op
TokenWith(s, i, op) ==
    [MatchCV(s, SpaceRunEnd(s, i + Len(op))) EXCEPT !.start = i, !.op = op]

TokenOf(o, s, i, k) == IF k = 0 THEN NoMatch(i) ELSE TokenWith(s, i, o[k])

\* constraintRegexp at i: m[1] (op) and the version groups m[3..7]
MatchTokenAt(o, s, i) == TokenOf(o, s, i, MatchOp(o, s, i))

\* the leftmost match of constraintRegexp at or after i
RECURSIVE FindFrom(_, _, _)
FindNext(o, s, i, m) == IF i > Len(s) \/ m.ok THEN m ELSE FindFrom(o, s, i + 1)

FindFrom(o, s, i) ==
    FindNext(o, s, i, MatchTokenAt(o, s, IF i > Len(s) THEN Len(s) + 1 ELSE i))

\* constraintRegexp.FindAllString(s, -1): the successive non-overlapping
\* matches; the empty sequence stands for nil
RECURSIVE FindAllFrom(_, _, _)
FindAllNext(o, s, m) ==
    IF ~m.ok THEN <<>>
    ELSE <<Slice(s, m.start, m.end)>> \o FindAllFrom(o, s, m.end)

FindAllFrom(o, s, i) == FindAllNext(o, s, FindFrom(o, s, i))

FindAllString(o, s) == FindAllFrom(o, s, 1)

\* constraintRegexp.FindStringSubmatch(s)
FindStringSubmatch(o, s) == FindFrom(o, s, 1)

\* validConstraintRegexp asks only whether some match exists, so every way
\* of matching a piece counts, not only the preferred one.

\* the ends of [0-9|x|X|\*]+ and of [0-9A-Za-z-]+ at i
VerRunEnds(s, i) == (i + 1)..VerRunEnd(s, i)

IdentRunEnds(s, i) == (i + 1)..IdentRunEnd(s, i)

\* the ends of (?:[0-9A-Za-z-]+\.)*[0-9A-Za-z-]+ at i
RECURSIVE IdentListEnds(_, _)
IdentListEnds(s, i) ==
    LET R == IdentRunEnds(s, i) IN
    R \cup UNION {IdentListEnds(s, r + 1) : r \in {q \in R : CharAt(s, q, ".")}}

\* the ends of cvRegex at i
CVEnds(s, i) ==
    LET S0 == {i} \cup (IF CharAt(s, i, "v") THEN {i + 1} ELSE {})
        M  == UNION {VerRunEnds(s, a) : a \in {b \in S0 : b <= Len(s)}}
        N  == M \cup UNION {VerRunEnds(s, a + 1) : a \in {b \in M : CharAt(s, b, ".")}}
        P  == N \cup UNION {VerRunEnds(s, a + 1) : a \in {b \in N : CharAt(s, b, ".")}}
        Q  == P \cup UNION {IdentListEnds(s, a + 1) : a \in {b \in P : CharAt(s, b, "-")}}
    IN  Q \cup UNION {IdentListEnds(s, a + 1) : a \in {b \in Q : CharAt(s, b, "+")}}

\* the ends of \s*(op)\s*(cvRegex)\s*\,? at i
PairEnds(s, i) ==
    LET A == i..SpaceRunEnd(s, i)
        B == UNION {{a + Len(k) : k \in {h \in OperatorKeys : HasPrefixAt(s, a, h)}} : a \in A}
        C == UNION {b..SpaceRunEnd(s, b) : b \in B}
        D == UNION {CVEnds(s, c) : c \in C}
        E == UNION {d..SpaceRunEnd(s, d) : d \in D}
    IN  E \cup {e + 1 : e \in {f \in E : CharAt(s, f, ",")}}

\* whether (pair)*\s*$ matches from i
RECURSIVE ValidFrom(_, _)
ValidFrom(s, i) ==
    \/ SpaceRunEnd(s, i) = Len(s) + 1
    \/ \E j \in PairEnds(s, i) : ValidFrom(s, j)

\* validConstraintRegexp.MatchString(s)
validConstraintRegexp(s) == ValidFrom(s, 1)

----------------------------------------------------------------------------
(* Version: the semver.Version and part.Part values of the goversion module *)

\* a part: a number (part.Uint64), a wildcard (part.Any), any other text
\* (part.String) or the upper end of the order (part.Infinite)
Num(n)  == [t |-> "num", n |-> n, s |-> <<>>]
AnyPart == [t |-> "any", n |-> 0, s |-> <<>>]
Str(s)  == [t |-> "str", n |-> 0, s |-> s]
Infinite == [t |-> "inf", n |-> 0, s |-> <<>>]

RECURSIVE ParseUint(_)
ParseUint(s) ==
    IF s = <<>> THEN 0
    ELSE 10 * ParseUint(Slice(s, 1, Len(s))) + (Ord(s[Len(s)]) - Ord("0"))

\* part.NewPart
NewPart(s) ==
    IF s # <<>> /\ \A i \in 1..Len(s) : IsDigit(s[i]) THEN Num(ParseUint(s))
    ELSE IF s \in {<<"*">>, <<"x">>, <<"X">>} THEN AnyPart
    ELSE Str(s)

\* strings.Split(s, ".")
RECURSIVE SplitDots(_, _, _)
SplitDots(s, start, i) ==
    IF i > Len(s) THEN <<Slice(s, start, Len(s) + 1)>>
    ELSE IF s[i] = "." THEN <<Slice(s, start, i)>> \o SplitDots(s, i + 1, i + 1)
    ELSE SplitDots(s, start, i + 1)

\* part.NewParts
NewParts(s) ==
    IF s = <<>> THEN <<>>
    ELSE LET ps == SplitDots(s, 1, 1) IN [i \in 1..Len(ps) |-> NewPart(ps[i])]

\* semver.New
SemverNew(major, minor, patch, pre) ==
    [major |-> major, minor |-> minor, patch |-> patch, pre |-> pre]

Sign(a, b) == IF a < b THEN -1 ELSE IF a > b THEN 1 ELSE 0

\* Part.Compare
PartCompare(a, b) ==
    IF a.t = "any" \/ b.t = "any" THEN 0
    ELSE IF a.t = "inf" THEN (IF b.t = "inf" THEN 0 ELSE 1)
    ELSE IF b.t = "inf" THEN -1
    ELSE IF a.t = "num" THEN (IF b.t = "num" THEN Sign(a.n, b.n) ELSE -1)
    ELSE IF b.t = "num" THEN 1
    ELSE StrCompare(a.s, b.s)

PartsIsAny(p) == \E i \in 1..Len(p) : p[i].t = "any"

PartsIsNull(p) == PartsIsAny(p) \/ Len(p) = 0

RECURSIVE PartsZipCompare(_, _)
PartsZipCompare(p, o) ==
    IF p = <<>> /\ o = <<>> THEN 0
    ELSE IF p = <<>> THEN -1
    ELSE IF o = <<>> THEN 1
    ELSE IF Head(p).t = "any" \/ Head(o).t = "any" THEN 0
    ELSE IF PartCompare(Head(p), Head(o)) # 0 THEN PartCompare(Head(p), Head(o))
    ELSE PartsZipCompare(Tail(p), Tail(o))

\* Parts.Compare: the order of two pre-release lists; none is above any
PartsCompare(p, o) ==
    IF PartsIsAny(o) THEN 0
    ELSE IF p = o THEN 0
    ELSE IF PartsIsNull(p) /\ ~PartsIsNull(o) THEN 1
    ELSE IF ~PartsIsNull(p) /\ PartsIsNull(o) THEN -1
    ELSE IF PartsIsNull(p) /\ PartsIsNull(o) THEN 0
    ELSE PartsZipCompare(p, o)

\* Version.Compare
Compare(v, o) ==
    LET mj == PartCompare(v.major, o.major)
        mn == PartCompare(v.minor, o.minor)
        pt == PartCompare(v.patch, o.patch)
    IN  IF mj # 0 \/ v.major.t = "any" \/ o.major.t = "any" THEN mj
        ELSE IF mn # 0 \/ v.minor.t = "any" \/ o.minor.t = "any" THEN mn
        ELSE IF pt # 0 \/ v.patch.t = "any" \/ o.patch.t = "any" THEN pt
        ELSE PartsCompare(v.pre, o.pre)

Equal(v, o)              == Compare(v, o) = 0
GreaterThan(v, o)        == Compare(v, o) > 0
LessThan(v, o)           == Compare(v, o) < 0
GreaterThanOrEqual(v, o) == Compare(v, o) >= 0
LessThanOrEqual(v, o)    == Compare(v, o) <= 0

IsPreRelease(v) == ~PartsIsNull(v.pre)

IsAny(v) == v.major.t = "any" /\ v.minor.t = "any" /\ v.patch.t = "any"

Release(v) == [v EXCEPT !.pre = <<>>]

IncMajor(v) == SemverNew(Num(v.major.n + 1), Num(0), Num(0), <<>>)
IncMinor(v) == SemverNew(v.major, Num(v.minor.n + 1), Num(0), <<>>)
IncPatch(v) == SemverNew(v.major, v.minor, Num(v.patch.n + 1), <<>>)

\* Version.TildeBump: the table at the head of constraintTilde
\*   ~*                       --> any
\*   ~2, ~2.x, ~2.x.x         --> <3.0.0
\*   ~2.0, ~1.2, ~1.2.x       --> <2.1.0, <1.3.0
\*   ~1.2.3, ~1.2.0           --> <1.3.0
TildeBump(v) ==
    IF v.major.t = "any" THEN [v EXCEPT !.major = Infinite]
    ELSE IF v.minor.t = "any" THEN IncMajor(v)
    ELSE IncMinor(v)

\* Version.CaretBump: the table at the head of constraintCaret
\*   ^*              --> any
\*   ^1.2.3, ^1.2, ^1 --> <2.0.0
\*   ^0.2.3, ^0.2    --> <0.3.0
\*   ^0.0.3          --> <0.0.4
\*   ^0.0            --> <0.1.0
\*   ^0              --> <1.0.0
CaretBump(v) ==
    IF v.major.t = "any" THEN [v EXCEPT !.major = Infinite]
    ELSE IF v.major.n > 0 THEN IncMajor(v)
    ELSE IF v.minor.t = "any" THEN IncMajor(v)
    ELSE IF v.minor.n > 0 THEN IncMinor(v)
    ELSE IF v.patch.t = "any" THEN IncMinor(v)
    ELSE IncPatch(v)

----------------------------------------------------------------------------
(* Constraints *)

\* conf, and the options applied to it in order
ZeroConf == [includePreRelease |-> FALSE]

\* WithPreRelease.apply
Apply(o, c) == [c EXCEPT !.includePreRelease = o]

RECURSIVE ApplyAll(_, _)
ApplyAll(opts, c) ==
    IF opts = <<>> THEN c ELSE ApplyAll(Tail(opts), Apply(Head(opts), c))

NoErr == [nil |-> TRUE, msg |-> "", arg |-> <<>>]

\* xerrors.Errorf("improper constraint: %s", a)
Errorf(a) == [nil |-> FALSE, msg |-> "improper constraint: ", arg |-> a]

\* Constraints{}
ZeroConstraints == [constraints |-> <<>>, conf |-> ZeroConf]

\* strings.TrimPrefix
TrimPrefix(s, p) == IF HasPrefixAt(s, 1, p) THEN Slice(s, Len(p) + 1, Len(s) + 1) ELSE s

newPart(p) == NewPart(IF p = <<>> THEN <<"*">> ELSE p)

\* the term of the empty token
AnyConstraint ==
    [version  |-> SemverNew(AnyPart, AnyPart, AnyPart, NewParts(<<"*">>)),
     operator |-> constraintOperators[OpEmpty],
     original |-> <<>>]

\* the term of a token c that constraintRegexp matched with the groups m
constraintOf(c, m) ==
    IF ~m.ok THEN [c |-> AnyConstraint, err |-> Errorf(c)]
    ELSE [c |-> [version  |-> SemverNew(newPart(m.major),
                                        newPart(TrimPrefix(m.minor, <<".">>)),
                                        newPart(TrimPrefix(m.patch, <<".">>)),
                                        NewParts(TrimPrefix(m.pre, <<"-">>))),
                 operator |-> constraintOperators[m.op],
                 original |-> c],
          err |-> NoErr]

newConstraint(o, c) ==
    IF c = <<>> THEN [c |-> AnyConstraint, err |-> NoErr]
    ELSE constraintOf(c, FindStringSubmatch(o, c))

\* the inner loop of NewConstraints: the terms of one segment's tokens, r
\* being newConstraint of the first
RECURSIVE newConstraintsOf(_, _, _)
appendConstraint(o, ss, acc, r) ==
    IF ~r.err.nil THEN [cs |-> <<>>, err |-> r.err]
    ELSE newConstraintsOf(o, Tail(ss), Append(acc, r.c))

newConstraintsOf(o, ss, acc) ==
    IF ss = <<>> THEN [cs |-> acc, err |-> NoErr]
    ELSE appendConstraint(o, ss, acc, newConstraint(o, Head(ss)))

\* ss, and the one trimmed token when FindAllString returned nil
OrTrimmed(ss, vv) == IF ss = <<>> THEN <<TrimSpace(vv)>> ELSE ss

Tokens(o, vv) == OrTrimmed(FindAllString(o, vv), vv)

\* ErrorReturn gone wrong: the alternatives parsed so far go back with the error
ErrorReturnPartial(css, e) ==
    [cs |-> [constraints |-> css, conf |-> ZeroConf], err |-> e]

\* what NewConstraints returns on an error, css being the alternatives parsed so far
ErrorReturn(css, e) == [cs |-> ZeroConstraints, err |-> e]

\* the outer loop of NewConstraints over strings.Split(v, "||")
RECURSIVE NewConstraintsLoop(_, _, _, _)
appendSegment(o, segs, css, config, r) ==
    IF ~r.err.nil THEN ErrorReturn(css, r.err)
    ELSE NewConstraintsLoop(o, Tail(segs), Append(css, r.cs), config)

NewConstraintsLoop(o, segs, css, config) ==
    IF segs = <<>>
    THEN [cs |-> [constraints |-> css, conf |-> config], err |-> NoErr]
    ELSE IF ~validConstraintRegexp(Head(segs))
         THEN ErrorReturn(css, Errorf(Head(segs)))
         ELSE appendSegment(o, segs, css, config,
                            newConstraintsOf(o, Tokens(o, Head(segs)), <<>>))

NewConstraints(o, v, opts) ==
    NewConstraintsLoop(o, Split(v), <<>>, ApplyAll(opts, ZeroConf))

----------------------------------------------------------------------------
(* Constraint functions *)

BothPreRelease(v, c, conf) ==
    ~conf.includePreRelease /\ (IsPreRelease(c) /\ IsPreRelease(v))

constraintEqual(v, c, conf) == Equal(v, c)

\* constraintGreaterThan gone wrong: no scoping to the bound's release
constraintGreaterThanPlain(v, c, conf) == GreaterThan(v, c)

constraintGreaterThan(v, c, conf) ==
    IF BothPreRelease(v, c, conf)
    THEN Equal(Release(v), Release(c)) /\ GreaterThan(v, c)
    ELSE GreaterThan(v, c)

constraintLessThan(v, c, conf) ==
    IF BothPreRelease(v, c, conf)
    THEN Equal(Release(v), Release(c)) /\ LessThan(v, c)
    ELSE LessThan(v, c)

constraintGreaterThanEqual(v, c, conf) ==
    IF BothPreRelease(v, c, conf)
    THEN Equal(Release(v), Release(c)) /\ GreaterThanOrEqual(v, c)
    ELSE GreaterThanOrEqual(v, c)

constraintLessThanEqual(v, c, conf) ==
    IF BothPreRelease(v, c, conf)
    THEN Equal(Release(v), Release(c)) /\ LessThanOrEqual(v, c)
    ELSE LessThanOrEqual(v, c)

\* constraintTilde gone wrong: the caret's upper bound
constraintTildeAsCaret(v, c, conf) ==
    IF BothPreRelease(v, c, conf)
    THEN GreaterThanOrEqual(v, c) /\ LessThan(v, Release(c))
    ELSE GreaterThanOrEqual(v, c) /\ LessThan(v, CaretBump(c))

constraintTilde(v, c, conf) ==
    IF BothPreRelease(v, c, conf)
    THEN GreaterThanOrEqual(v, c) /\ LessThan(v, Release(c))
    ELSE GreaterThanOrEqual(v, c) /\ LessThan(v, TildeBump(c))

\* constraintCaret gone wrong: the tilde's upper bound
constraintCaretAsTilde(v, c, conf) ==
    IF BothPreRelease(v, c, conf)
    THEN GreaterThanOrEqual(v, c) /\ LessThan(v, Release(c))
    ELSE GreaterThanOrEqual(v, c) /\ LessThan(v, TildeBump(c))

constraintCaret(v, c, conf) ==
    IF BothPreRelease(v, c, conf)
    THEN GreaterThanOrEqual(v, c) /\ LessThan(v, Release(c))
    ELSE GreaterThanOrEqual(v, c) /\ LessThan(v, CaretBump(c))

\* the call of an operatorFunc value
CallOperator(f, v, c, conf) ==
    CASE f = "constraintEqual"            -> constraintEqual(v, c, conf)
      [] f = "constraintGreaterThan"      -> constraintGreaterThan(v, c, conf)
      [] f = "constraintLessThan"         -> constraintLessThan(v, c, conf)
      [] f = "constraintGreaterThanEqual" -> constraintGreaterThanEqual(v, c, conf)
      [] f = "constraintLessThanEqual"    -> constraintLessThanEqual(v, c, conf)
      [] f = "constraintTilde"            -> constraintTilde(v, c, conf)
      [] f = "constraintCaret"            -> constraintCaret(v, c, conf)

\* preCheck gone wrong, three ways: without step 1, without step 2, and with
\* step 2 rejecting every universal wildcard bound
preCheckNoStep1(f, v, c, conf) ==
    IF IsPreRelease(c) /\ IsAny(c) THEN FALSE
    ELSE CallOperator(f, v, c, conf)

preCheckNoStep2(f, v, c, conf) ==
    IF ~conf.includePreRelease /\ (IsPreRelease(v) /\ ~IsPreRelease(c)) THEN FALSE
    ELSE CallOperator(f, v, c, conf)

preCheckAnyBound(f, v, c, conf) ==
    IF ~conf.includePreRelease /\ (IsPreRelease(v) /\ ~IsPreRelease(c)) THEN FALSE
    ELSE IF IsAny(c) THEN FALSE
    ELSE CallOperator(f, v, c, conf)

\* preCheck(f)(v, c, conf)
preCheck(f, v, c, conf) ==
    IF ~conf.includePreRelease /\ (IsPreRelease(v) /\ ~IsPreRelease(c)) THEN FALSE
    ELSE IF IsPreRelease(c) /\ IsAny(c) THEN FALSE
    ELSE CallOperator(f, v, c, conf)

\* constraint.check
check(c, v, conf) == preCheck(c.operator, v, c.version, conf)

\* andCheck gone wrong: only the first term decides
andCheckFirstTerm(v, constraints, conf) ==
    constraints = <<>> \/ check(Head(constraints), v, conf)

RECURSIVE andCheck(_, _, _)
andCheck(v, constraints, conf) ==
    IF constraints = <<>> THEN TRUE
    ELSE IF ~check(Head(constraints), v, conf) THEN FALSE
    ELSE andCheck(v, Tail(constraints), conf)

RECURSIVE CheckLoop(_, _, _)
CheckLoop(constraints, conf, v) ==
    IF constraints = <<>> THEN FALSE
    ELSE IF andCheck(v, Head(constraints), conf) THEN TRUE
    ELSE CheckLoop(Tail(constraints), conf, v)

\* Constraints.Check
Check(c, v) == CheckLoop(c.constraints, c.conf, v)

\* constraint.String
constraintString(c) == c.original

\* Constraints.String
String(c) ==
    Join([i \in 1..Len(c.constraints) |->
            Join([j \in 1..Len(c.constraints[i]) |->
                    constraintString(c.constraints[i][j])], <<",">>)],
         OrSep)

----------------------------------------------------------------------------
(* The calls the model makes *)

\* orders in which init() may meet the keys of the constraintOperators map
OpOrders ==
    {<<OpEmpty, OpEq, OpEqEq, OpGt, OpLt, OpGte, OpEqGt, OpLte, OpEqLt, OpTilde, OpCaret>>,
     <<OpGte, OpEqGt, OpLte, OpEqLt, OpEqEq, OpEq, OpGt, OpLt, OpTilde, OpCaret, OpEmpty>>,
     <<OpCaret, OpTilde, OpLt, OpGt, OpEq, OpEmpty, OpEqLt, OpLte, OpEqGt, OpGte, OpEqEq>>}

\* version texts of the one-term ranges
VersionTexts ==
    {<<"1", ".", "2", ".", "3">>,
     <<"0", ".", "2", ".", "3">>,
     <<"1", ".", "2", ".", "0">>,
     <<"1", ".", "0", ".", "0">>,
     <<"2", ".", "0", ".", "0">>,
     <<"1", ".", "1", ".", "1">>,
     <<"1", ".", "1">>,
     <<"1">>,
     <<"0", ".", "1", ".", "1">>,
     <<"0", ".", "1">>,
     <<"0", ".", "0", ".", "1">>,
     <<"0", ".", "0">>,
     <<"0">>,
     <<"*">>,
     <<"1", ".", "x">>,
     <<"0", ".", "x">>,
     <<"1", ".", "1", ".", "x">>,
     <<"0", ".", "0", ".", "x">>,
     <<"1", ".", "1", ".", "1", "-", "a", "l", "p", "h", "a">>,
     <<"1", ".", "2", ".", "3", "-", "a", "l", "p", "h", "a">>,
     <<"0", ".", "0", ".", "1", "-", "a", "l", "p", "h", "a">>,
     <<"1", ".", "1", "-", "a", "l", "p", "h", "a">>,
     <<"*", "-", "a", "l", "p", "h", "a">>,
     <<"1", ".", "1", ".", "1", "-", "x">>}

\* every operator before every version text
TermInputs == {k \o t : k \in OperatorKeys, t \in VersionTexts}

\* ranges of several terms and alternatives, well-formed and not
RangeInputs ==
    {<<>>,
     <<" ">>,
     <<"|", "|">>,
     <<"1", ".", "0", ".", "0", "|", "|">>,
     <<" ", "|", "|", " ", "1", ".", "x">>,
     <<">", "=", "1", ".", "0", ".", "0", " ", "<", "2", ".", "0", ".", "0", " ", "|", "|", " ", "3", ".", "x">>,
     <<"3", ".", "x", " ", "|", "|", " ", ">", "=", "1", ".", "0", ".", "0", " ", "<", "2", ".", "0", ".", "0">>,
     <<"<", "2", ".", "0", ".", "0", " ", ">", "=", "1", ".", "0", ".", "0", " ", "|", "|", " ", "3", ".", "x">>,
     <<">", "=", "1", ".", "0", ".", "0", " ", "<", "2", ".", "0", ".", "0">>,
     <<"<", "2", ".", "0", ".", "0", " ", ">", "=", "1", ".", "0", ".", "0">>,
     <<">", "=", "1", ".", "0", ".", "0", ",", "<", "2", ".", "0", ".", "0">>,
     <<">", "=", " ", "1", ".", "0", ".", "0", " ", ",", " ", "<", "2", ".", "0", ".", "0">>,
     <<">", "1", "<", "2">>,
     <<"1", ".", "0", ".", "0", " ", "2", ".", "0", ".", "0">>,
     <<"2", ".", "0", ".", "0", " ", "|", "|", " ", "1", ".", "x">>,
     <<"1", ".", "x", " ", "|", "|", " ", "2", ".", "0", ".", "0">>,
     <<"^", "0", ".", "1", " ", "|", "|", " ", "~", "1", ".", "1">>,
     <<"~", "1", ".", "1", " ", "|", "|", " ", "^", "0", ".", "1">>,
     <<">", "=", "1", ".", "1", ".", "1", "-", "a", "l", "p", "h", "a", " ", "<", "1", ".", "1", ".", "1">>,
     <<"<", "1", ".", "1", ".", "1", " ", ">", "=", "1", ".", "1", ".", "1", "-", "a", "l", "p", "h", "a">>,
     <<">", "1", ".", "1", ".", "1", "-", "a", "l", "p", "h", "a", " ", "|", "|", " ", "0", ".", "x">>,
     <<"v", "1", ".", "1", ".", "1">>,
     <<"=", " ", "v", "1", ".", "1">>,
     <<"=", ">", "\t", "1", ".", "1">>,
     <<"1", ".", "1", ".", "1", "+", "b">>,
     <<"1", ".", "1", ".", "1", "-", "a", "l", "p", "h", "a", ".", "1">>,
     <<"1", ".", "2", ".", "3", "-", "-", "a">>,
     <<"1", ".", "x", " ", "*", "-", "a", "l", "p", "h", "a">>,
     <<"*", "-", "a", "l", "p", "h", "a", " ", "1", ".", "x">>,
     <<"*", "-", "a", "l", "p", "h", "a", " ", "|", "|", " ", "1", ".", "x">>,
     <<"1", ".", "x", " ", "|", "|", " ", "*", "-", "a", "l", "p", "h", "a">>,
     <<">", "=", "0", ".", "0", ".", "0", " ", "^", "x", "-", "a", "l", "p", "h", "a">>,
     <<"1", ".", "2", ".", "3", " ", "&", " ", "2", ".", "0", ".", "0">>,
     <<"<", ">", "1", ".", "0", ".", "0">>,
     <<"1", ".", "0", ".", "0", " ", "|", "|", " ", "<", ">", "1", ".", "0", ".", "0">>,
     <<"<", ">", "1", ".", "0", ".", "0", " ", "|", "|", " ", "1", ".", "0", ".", "0">>,
     <<"1", ".", "x", " ", "|", "|", " ", "2", ".", "x", " ", "|", "|", " ", "1", ".", "2", ".", "3", " ", "&", " ", "2", ".", "0", ".", "0">>,
     <<"1", ".", "0", " ", "-", " ", "2", ".", "0">>,
     <<"1", ".", "1", ".", "1", ".", "1">>,
     <<"!", "1">>,
     <<"1", "|">>,
     <<"1", "|", " ", "|", "|", "2">>,
     <<"1", "|", "|", "|", "2">>,
     <<"1", " ", "|", "|", " ", "|", "2">>,
     <<"1", "|", " ", ",", " ", "2">>}

Inputs == TermInputs \cup RangeInputs

\* the option lists given to NewConstraints
OptionLists == {<<>>, <<TRUE>>, <<FALSE>>, <<TRUE, FALSE>>}

\* the largest component of the candidate versions of the grid
MaxNum == 2

PreReleases == {<<>>, <<Str(<<"a", "l", "p", "h", "a">>)>>, <<Str(<<"b", "e", "t", "a">>)>>}

GridVersions ==
    {SemverNew(Num(a), Num(b), Num(c), p) :
        a \in 0..MaxNum, b \in 0..MaxNum, c \in 0..MaxNum, p \in PreReleases}

\* the versions the documentation's examples name
ExampleVersions ==
    {SemverNew(Num(1), Num(2), Num(3), <<>>),
     SemverNew(Num(1), Num(9), Num(9), <<>>),
     SemverNew(Num(1), Num(2), Num(2), <<>>),
     SemverNew(Num(1), Num(2), Num(9), <<>>),
     SemverNew(Num(1), Num(3), Num(0), <<>>),
     SemverNew(Num(0), Num(2), Num(3), <<>>),
     SemverNew(Num(0), Num(2), Num(9), <<>>),
     SemverNew(Num(0), Num(3), Num(0), <<>>),
     SemverNew(Num(1), Num(5), Num(0), <<>>),
     SemverNew(Num(3), Num(2), Num(1), <<>>),
     SemverNew(Num(2), Num(5), Num(0), <<>>),
     SemverNew(Num(1), Num(2), Num(4), <<>>),
     SemverNew(Num(1), Num(2), Num(3), <<Str(<<"a", "l", "p", "h", "a">>)>>),
     SemverNew(Num(1), Num(2), Num(3), <<Str(<<"b", "e", "t", "a">>)>>),
     SemverNew(Num(1), Num(1), Num(1), <<Str(<<"a", "l", "p", "h", "a">>), Num(1)>>)}

Candidates == GridVersions \cup ExampleVersions

Init ==
    /\ ops \in OpOrders
    /\ pc = "ready"
    /\ input = <<>>
    /\ cs = ZeroConstraints
    /\ err = NoErr
    /\ cand = SemverNew(Num(0), Num(0), Num(0), <<>>)
    /\ result = FALSE
    /\ str = <<>>
    /\ cs2 = ZeroConstraints
    /\ err2 = NoErr

\* NewConstraints(v, opts...)
CallNewConstraints ==
    /\ pc = "ready"
    /\ \E v \in Inputs, opts \in OptionLists :
       \E r \in {NewConstraints(ops, v, opts)} :
          /\ input' = v
          /\ cs' = r.cs
          /\ err' = r.err
          /\ pc' = IF r.err.nil THEN "parsed" ELSE "failed"
    /\ UNCHANGED <<ops, cand, result, str, cs2, err2>>

\* cs.Check(v) on what NewConstraints returned; a call may be repeated
CallCheck ==
    /\ pc \in {"parsed", "failed", "checked"}
    /\ \E v \in Candidates :
          /\ pc = "checked" => v = cand
          /\ cand' = v
          /\ result' = Check(cs, v)
    /\ pc' = "checked"
    /\ UNCHANGED <<ops, input, cs, err, str, cs2, err2>>

\* cs.String()
CallString ==
    /\ pc = "parsed"
    /\ str' = String(cs)
    /\ pc' = "printed"
    /\ UNCHANGED <<ops, input, cs, err, cand, result, cs2, err2>>

\* NewConstraints(cs.String(), WithPreRelease(...)) with the options of cs
CallReparse ==
    /\ pc = "printed"
    /\ \E r \in {NewConstraints(ops, str, <<cs.conf.includePreRelease>>)} :
          /\ cs2' = r.cs
          /\ err2' = r.err
    /\ pc' = "reparsed"
    /\ UNCHANGED <<ops, input, cs, err, cand, result, str>>

Next == CallNewConstraints \/ CallCheck \/ CallString \/ CallReparse

Spec == Init /\ [][Next]_vars

----------------------------------------------------------------------------
(* Properties *)

Alternatives == cs.constraints

IncludePre == cs.conf.includePreRelease

Checked == pc = "checked"

\* a range of one alternative of one term, checked: the term, its bound
OneTerm == Checked /\ Len(Alternatives) = 1 /\ Len(Alternatives[1]) = 1

Term == Alternatives[1][1]

Bound == Term.version

Version3(a, b, c) == SemverNew(Num(a), Num(b), Num(c), <<>>)

Alpha == <<Str(<<"a", "l", "p", "h", "a">>)>>

\* the two steps of the pre-release gate
GateStep1(v, b, incl) == ~incl /\ IsPreRelease(v) /\ ~IsPreRelease(b)

GateStep2(b) == IsPreRelease(b) /\ IsAny(b)

GatePasses(v, b, incl) == ~GateStep1(v, b, incl) /\ ~GateStep2(b)

Reverse(s) == [i \in 1..Len(s) |-> s[Len(s) + 1 - i]]

\* C1: Check returns true exactly when some alternative has all its terms
\* satisfied through the gate, false when there is no alternative, and the
\* same whatever the order of the alternatives and of the terms in them;
\* ">=1.0.0 <2.0.0 || 3.x" accepts 1.5.0 and 3.2.1 and rejects 2.5.0.
C1_CheckIsOrOfAnds ==
    Checked =>
      /\ result = (\E i \in 1..Len(Alternatives) :
                     \A j \in 1..Len(Alternatives[i]) :
                        check(Alternatives[i][j], cand, cs.conf))
      /\ (Alternatives = <<>> => result = FALSE)
      /\ result = Check([cs EXCEPT !.constraints = Reverse(Alternatives)], cand)
      /\ result = Check([cs EXCEPT !.constraints =
                            [i \in 1..Len(Alternatives) |-> Reverse(Alternatives[i])]], cand)
      /\ (input = <<">", "=", "1", ".", "0", ".", "0", " ", "<", "2", ".", "0", ".", "0", " ", "|", "|", " ", "3", ".", "x">> =>
            /\ (cand \in {Version3(1, 5, 0), Version3(3, 2, 1)} => result = TRUE)
            /\ (cand = Version3(2, 5, 0) => result = FALSE))

\* a second alternative decides: the first fails on one of its terms
C1_Witness ==
    /\ Checked /\ result = TRUE
    /\ Len(Alternatives) = 2 /\ Len(Alternatives[1]) = 2
    /\ check(Alternatives[1][1], cand, cs.conf)
    /\ ~check(Alternatives[1][2], cand, cs.conf)

\* C2: without includePreRelease a pre-release candidate satisfies no term
\* whose bound is not a pre-release, whatever the operator; with
\* includePreRelease the same term is decided by the operator's predicate;
\* 1.2.3-alpha fails >1.2.0 by default and satisfies it with the option.
C2_GateStep1 ==
    Checked =>
      /\ (~IncludePre /\ IsPreRelease(cand)) =>
            /\ \A i \in 1..Len(Alternatives) :
                  (\E j \in 1..Len(Alternatives[i]) :
                      ~IsPreRelease(Alternatives[i][j].version))
                  => ~andCheck(cand, Alternatives[i], cs.conf)
            /\ result =>
                  \E i \in 1..Len(Alternatives) :
                     \A j \in 1..Len(Alternatives[i]) :
                        IsPreRelease(Alternatives[i][j].version)
      /\ (OneTerm /\ IncludePre /\ ~IsPreRelease(Bound)) =>
            result = CallOperator(Term.operator, cand, Bound, cs.conf)
      /\ (input = <<">", "1", ".", "2", ".", "0">> /\ cand = SemverNew(Num(1), Num(2), Num(3), Alpha)) =>
            result = IncludePre

\* the gate alone rejects: the operator's predicate holds of the candidate
C2_Witness ==
    /\ OneTerm /\ ~IncludePre /\ IsPreRelease(cand) /\ ~IsPreRelease(Bound)
    /\ Term.operator = "constraintCaret"
    /\ CallOperator(Term.operator, cand, Bound, cs.conf)
    /\ result = FALSE

\* the term the empty token stands for
MatchAnything ==
    [version  |-> [major |-> AnyPart, minor |-> AnyPart, patch |-> AnyPart,
                   pre |-> <<AnyPart>>],
     operator |-> "constraintEqual",
     original |-> <<>>]

\* C3: the empty range is one alternative of one match-anything term (all
\* components and the pre-release wildcard, operator Eq, no original text);
\* it accepts every version that is no pre-release, and a pre-release only
\* with includePreRelease: step 2 of the gate does not reject it.
C3_EmptyRange ==
    (input = <<>> /\ pc # "ready") =>
      /\ err.nil
      /\ Alternatives = <<<<MatchAnything>>>>
      /\ ~GateStep2(MatchAnything.version)
      /\ Checked => result = (~IsPreRelease(cand) \/ IncludePre)

C3_Witness ==
    /\ input = <<>> /\ Checked
    /\ IsPreRelease(cand) /\ IncludePre /\ result = TRUE

\* the first segment of the input that the validator refuses (0: none)
FirstBad(segs) ==
    FirstOf({i \in 1..Len(segs) : ~validConstraintRegexp(segs[i])})

\* C4: when a segment of the input fails the validator NewConstraints returns
\* an error whose message holds that segment verbatim; with any error it
\* returns the empty Constraints value, whatever was parsed before, and Check
\* on it accepts nothing; "1.2.3 & 2.0.0" and "<>1.0.0" are refused.
C4_AllOrNothing ==
    /\ pc \in {"parsed", "failed"} =>
          /\ FirstBad(Split(input)) # 0 =>
                /\ ~err.nil
                /\ err.msg = "improper constraint: "
                /\ err.arg = Split(input)[FirstBad(Split(input))]
          /\ input \in {<<"1", ".", "2", ".", "3", " ", "&", " ", "2", ".", "0", ".", "0">>,
                        <<"<", ">", "1", ".", "0", ".", "0">>} => ~err.nil
    /\ (pc # "ready" /\ ~err.nil) =>
          /\ cs = [constraints |-> <<>>, conf |-> [includePreRelease |-> FALSE]]
          /\ Checked => result = FALSE

\* an error after a well-formed first segment
C4_Witness ==
    /\ pc = "failed" /\ ~err.nil
    /\ Len(Split(input)) = 3
    /\ validConstraintRegexp(Split(input)[1])
    /\ validConstraintRegexp(Split(input)[2])
    /\ err.arg = Split(input)[3]

\* C5: the text String() returns parses again, with the same options, to as
\* many alternatives of as many terms, and the re-parsed range checks every
\* version as the original does.
C5_RoundTrip ==
    pc = "reparsed" =>
      /\ err2.nil
      /\ Len(cs2.constraints) = Len(cs.constraints)
      /\ \A i \in 1..Len(cs.constraints) :
            Len(cs2.constraints[i]) = Len(cs.constraints[i])
      /\ \A v \in Candidates : Check(cs2, v) = Check(cs, v)

\* a version is below an exclusive upper bound; Unbounded is no bound
Unbounded == {}

Below(v, up) == \A u \in up : LessThan(v, u)

NextMajor(b) == {Version3(b.major.n + 1, 0, 0)}
NextMinor(b) == {Version3(b.major.n, b.minor.n + 1, 0)}
NextPatch(b) == {Version3(b.major.n, b.minor.n, b.patch.n + 1)}

Wild(p) == p.t = "any"

\* a ~ or ^ term with the exclusive upper bound up, as the claims state it
RangeTerm(v, b, incl, up) ==
    /\ GatePasses(v, b, incl)
    /\ GreaterThanOrEqual(v, b)
    /\ IF ~incl /\ IsPreRelease(b) /\ IsPreRelease(v)
       THEN LessThan(v, Release(b))
       ELSE Below(v, up)

\* the caret bound as the claim words it: the next patch whenever major and
\* minor are both 0
StatedCaretBound(b) ==
    IF Wild(b.major) THEN Unbounded
    ELSE IF b.major.n > 0 THEN NextMajor(b)
    ELSE IF Wild(b.minor) THEN NextMajor(b)
    ELSE IF b.minor.n > 0 THEN NextMinor(b)
    ELSE NextPatch(b)

\* the caret bound with the next minor for 0.0 and 0.0.x
CaretBound(b) ==
    IF Wild(b.major) THEN Unbounded
    ELSE IF b.major.n > 0 THEN NextMajor(b)
    ELSE IF Wild(b.minor) THEN NextMajor(b)
    ELSE IF b.minor.n > 0 THEN NextMinor(b)
    ELSE IF Wild(b.patch) THEN NextMinor(b)
    ELSE NextPatch(b)

IsCaretTerm == OneTerm /\ Term.operator = "constraintCaret"

CaretExamples ==
    /\ input = <<"^", "1", ".", "2", ".", "3">> =>
          /\ (cand \in {Version3(1, 2, 3), Version3(1, 9, 9)} => result = TRUE)
          /\ (cand \in {Version3(2, 0, 0), Version3(1, 2, 2)} => result = FALSE)
    /\ input = <<"^", "0", ".", "2", ".", "3">> =>
          /\ (cand \in {Version3(0, 2, 3), Version3(0, 2, 9)} => result = TRUE)
          /\ (cand = Version3(0, 3, 0) => result = FALSE)

\* C6 as stated: ^B accepts V iff the gate passes, V >= B and V is below the
\* caret bound (below release(B) when both are pre-releases and
\* includePreRelease is off), the bound being the next patch whenever major
\* and minor are 0.
C6_CaretAsStated ==
    IsCaretTerm =>
      /\ result = RangeTerm(cand, Bound, IncludePre, StatedCaretBound(Bound))
      /\ CaretExamples

\* C6, amended: the same with the caret bound of 0.0 and 0.0.x (major 0,
\* minor 0, patch wildcard or absent) the next minor, and the next patch only
\* when the patch is a number; ^1.2.3 accepts 1.2.3 and 1.9.9 and rejects
\* 2.0.0 and 1.2.2, ^0.2.3 accepts 0.2.3 and 0.2.9 and rejects 0.3.0.
C6_Caret ==
    IsCaretTerm =>
      /\ result = RangeTerm(cand, Bound, IncludePre, CaretBound(Bound))
      /\ CaretExamples

\* ^0.0 accepts a version past 0.0.1
C6_Witness ==
    /\ IsCaretTerm /\ result = TRUE
    /\ Bound.major = Num(0) /\ Bound.minor = Num(0) /\ Wild(Bound.patch)
    /\ cand = Version3(0, 0, 1)

\* the tilde bound
TildeBound(b) ==
    IF Wild(b.major) THEN Unbounded
    ELSE IF Wild(b.minor) THEN NextMajor(b)
    ELSE NextMinor(b)

IsTildeTerm == OneTerm /\ Term.operator = "constraintTilde"

\* C7: ~B accepts V iff the gate passes, V >= B and V is below the tilde
\* bound (below release(B) when both are pre-releases and includePreRelease
\* is off): no bound for a wildcard major, the next major for a wildcard or
\* absent minor, else the next minor; ~1.2.3 accepts 1.2.3 and 1.2.9 and
\* rejects 1.3.0 and 1.2.2.
C7_Tilde ==
    IsTildeTerm =>
      /\ result = RangeTerm(cand, Bound, IncludePre, TildeBound(Bound))
      /\ input = <<"~", "1", ".", "2", ".", "3">> =>
            /\ (cand \in {Version3(1, 2, 3), Version3(1, 2, 9)} => result = TRUE)
            /\ (cand \in {Version3(1, 3, 0), Version3(1, 2, 2)} => result = FALSE)

\* a patch-level bound still admits a later patch but not the next minor
C7_Witness ==
    /\ IsTildeTerm /\ result = TRUE
    /\ Bound = Version3(1, 1, 1) /\ cand = Version3(1, 1, 2)

\* C8: a term whose bound is a pre-release and the universal wildcard is
\* satisfied by no version, whatever its operator and with or without
\* includePreRelease, and neither is an alternative that holds such a term.
C8_GateStep2 ==
    Checked =>
      /\ \A i \in 1..Len(Alternatives) :
            (\E j \in 1..Len(Alternatives[i]) : GateStep2(Alternatives[i][j].version))
            => ~andCheck(cand, Alternatives[i], cs.conf)
      /\ result =>
            \E i \in 1..Len(Alternatives) :
               \A j \in 1..Len(Alternatives[i]) : ~GateStep2(Alternatives[i][j].version)
      /\ (OneTerm /\ GateStep2(Bound)) => result = FALSE

\* step 2 alone rejects: step 1 does not apply and the operator would accept
C8_Witness ==
    /\ OneTerm /\ GateStep2(Bound) /\ IncludePre
    /\ Term.operator = "constraintGreaterThanEqual"
    /\ CallOperator(Term.operator, cand, Bound, cs.conf)
    /\ result = FALSE

\* what NewConstraints returns for the input under the alternation order o
ParsedWith(o) == NewConstraints(o, input, <<IncludePre>>)

\* C9: NewConstraints gives the same outcome (error, tokens, operator of each
\* token) under every order of the operator alternation, Check changes
\* neither the Constraints value nor the error, and a repeated Check of the
\* same version returns the same.
C9_Deterministic ==
    /\ [](pc \in {"parsed", "failed"} =>
            \A o \in OpOrders : ParsedWith(o) = [cs |-> cs, err |-> err])
    /\ [][pc' = "checked" =>
             /\ cs' = cs /\ err' = err /\ ops' = ops
             /\ (pc = "checked" /\ cand' = cand) => result' = result]_vars

\* the operator ">=" is taken although "" and ">" come first in the alternation
C9_Witness ==
    /\ pc = "parsed"
    /\ ops[1] = OpEmpty /\ ops[4] = OpGt /\ ops[6] = OpGte
    /\ Len(Alternatives) = 1 /\ Len(Alternatives[1]) = 2
    /\ Alternatives[1][1].operator = "constraintGreaterThanEqual"
    /\ Alternatives[1][2].operator = "constraintLessThan"

\* the operator each operator text stands for
StatedOperator(k) ==
    IF k \in {OpEmpty, OpEq, OpEqEq} THEN "Eq"
    ELSE IF k = OpGt THEN "Gt"
    ELSE IF k = OpLt THEN "Lt"
    ELSE IF k \in {OpGte, OpEqGt} THEN "Gte"
    ELSE IF k \in {OpLte, OpEqLt} THEN "Lte"
    ELSE "other"

\* the plain comparison of an operator
Plain(op, v, b) ==
    CASE op = "Eq"  -> Compare(v, b) = 0
      [] op = "Gt"  -> Compare(v, b) > 0
      [] op = "Lt"  -> Compare(v, b) < 0
      [] op = "Gte" -> Compare(v, b) >= 0
      [] op = "Lte" -> Compare(v, b) <= 0

\* an ordering term as the claim states it
OrderingTerm(op, v, b, incl) ==
    /\ GatePasses(v, b, incl)
    /\ Plain(op, v, b)
    /\ (op # "Eq" /\ ~incl /\ IsPreRelease(b) /\ IsPreRelease(v))
          => Compare(Release(v), Release(b)) = 0

\* C10: a term of >, <, >= (=>), <= (=<) that passes the gate holds iff the
\* plain comparison holds and, when bound and candidate are both
\* pre-releases and includePreRelease is off, their releases are equal; a
\* term of =, == or no operator holds iff candidate and bound are equal.
C10_Ordering ==
    \A k \in OperatorKeys \ {OpTilde, OpCaret} :
       (Checked /\ \E t \in VersionTexts : input = k \o t) =>
          /\ OneTerm
          /\ result = OrderingTerm(StatedOperator(k), cand, Bound, IncludePre)

\* a later pre-release of another release is above the bound and rejected
C10_Witness ==
    /\ OneTerm /\ Term.operator = "constraintGreaterThan" /\ ~IncludePre
    /\ IsPreRelease(Bound) /\ IsPreRelease(cand)
    /\ GreaterThan(cand, Bound)
    /\ result = FALSE

=============================================================================
